---- MODULE Spec2Model ----
(***************************************************************************)
(* copilot-proxy: the chat-completions handler (validation, augmentation,  *)
(* upstream call, streaming relay) and the model catalog, as a state       *)
(* machine.  Strings the program inspects character by character (model    *)
(* names, JSON keys, roles) are tuples of one-character strings.           *)
(***************************************************************************)
EXTENDS Integers, Sequences, FiniteSets, TLC

(***************************************************************************)
(* Bounds of the model.                                                    *)
(***************************************************************************)
\* Reads of the upstream body that return data, per request.
MaxChunks == 2

(***************************************************************************)
(* Strings.                                                                *)
(***************************************************************************)
UpperChars == <<"A","B","C","D","E","F","G","H","I","J","K","L","M",
                "N","O","P","Q","R","S","T","U","V","W","X","Y","Z">>
LowerChars == <<"a","b","c","d","e","f","g","h","i","j","k","l","m",
                "n","o","p","q","r","s","t","u","v","w","x","y","z">>

\* Simple case folding of one ASCII character.
FoldChar(c) ==
  IF \E i \in DOMAIN UpperChars : UpperChars[i] = c
    THEN LowerChars[CHOOSE i \in DOMAIN UpperChars : UpperChars[i] = c]
    ELSE c

UpperChar(c) ==
  IF \E i \in DOMAIN LowerChars : LowerChars[i] = c
    THEN UpperChars[CHOOSE i \in DOMAIN LowerChars : LowerChars[i] = c]
    ELSE c

\* strings.EqualFold
EqualFold(s, t) ==
  /\ Len(s) = Len(t)
  /\ \A i \in 1..Len(s) : FoldChar(s[i]) = FoldChar(t[i])

\* Every letter-casing of a string.
RECURSIVE Casings(_)
Casings(w) ==
  IF w = <<>> THEN {<<>>}
  ELSE {<<c>> \o r : c \in {FoldChar(w[1]), UpperChar(w[1])}, r \in Casings(Tail(w))}

(***************************************************************************)
(* The model catalog (internal/models/catalog.go).                         *)
(***************************************************************************)
Catalog == <<
  [Name |-> <<"G","L","M","-","4",".","7">>, Model |-> <<"g","l","m","-","4",".","7">>,
   ContextLen |-> 200000, Capabilities |-> <<"tools", "vision">>, Families |-> <<"glm">>],
  [Name |-> <<"G","L","M","-","4",".","6">>, Model |-> <<"g","l","m","-","4",".","6">>,
   ContextLen |-> 200000, Capabilities |-> <<"tools", "vision">>, Families |-> <<"glm">>],
  [Name |-> <<"G","L","M","-","4",".","5">>, Model |-> <<"g","l","m","-","4",".","5">>,
   ContextLen |-> 128000, Capabilities |-> <<"tools", "vision">>, Families |-> <<"glm">>],
  [Name |-> <<"G","L","M","-","4",".","5","-","A","i","r">>,
   Model |-> <<"g","l","m","-","4",".","5","-","a","i","r">>,
   ContextLen |-> 128000, Capabilities |-> <<"tools", "vision">>, Families |-> <<"glm">>] >>

IsValidModel(name) ==
  \E i \in DOMAIN Catalog :
    EqualFold(Catalog[i].Name, name) \/ EqualFold(Catalog[i].Model, name)

\* The first of the catalog entries that pass a test, as a loop over
\* Catalog.Models finds it.
First(hits) == CHOOSE i \in hits : \A j \in hits : i <= j

\* The entries a name matches under case folding, by either name.
FoldHits(name) ==
  {i \in DOMAIN Catalog : EqualFold(Catalog[i].Name, name) \/ EqualFold(Catalog[i].Model, name)}

DefaultContextLen == 128000

\* for _, m := range Catalog.Models { if m.Name == name { return m.ContextLen } }
GetModelContextLength(name) ==
  LET hits == {i \in DOMAIN Catalog : Catalog[i].Name = name}
  IN IF hits = {} THEN DefaultContextLen ELSE Catalog[First(hits)].ContextLen

NoModel ==
  [Name |-> <<>>, Model |-> <<>>, ContextLen |-> 0, Capabilities |-> <<>>, Families |-> <<>>]

\* for _, m := range Catalog.Models { if m.Name == name || m.Model == name { return &m, true } }
GetModel(name) ==
  LET hits == {i \in DOMAIN Catalog : Catalog[i].Name = name \/ Catalog[i].Model = name}
  IN IF hits = {} THEN [m |-> NoModel, found |-> FALSE]
     ELSE [m |-> Catalog[First(hits)], found |-> TRUE]

\* Faulty variant: the display name of the entry is returned.
GetCanonicalModelName_Display(name) ==
  IF FoldHits(name) = {} THEN name ELSE Catalog[First(FoldHits(name))].Name

\* The first catalog entry that matches, as the loop finds it.
GetCanonicalModelName(name) ==
  LET hits == {i \in DOMAIN Catalog :
                 EqualFold(Catalog[i].Name, name) \/ EqualFold(Catalog[i].Model, name)}
  IN IF hits = {} THEN name
     ELSE Catalog[CHOOSE i \in hits : \A j \in hits : i <= j].Model

(***************************************************************************)
(* JSON values.  An object is the sequence of its members <<key, value>>   *)
(* in document order (keys may repeat and differ in case only).            *)
(***************************************************************************)
JAbsent  == [t |-> "absent"]
JNull    == [t |-> "null"]
JBool(b) == [t |-> "bool", b |-> b]
JNum(n)  == [t |-> "num", n |-> n]
JStr(s)  == [t |-> "str", s |-> s]
JArr(a)  == [t |-> "arr", a |-> a]
JObj(m)  == [t |-> "obj", m |-> m]

\* The members that are present.
Members(ms) == SelectSeq(ms, LAMBDA m : m[2].t # "absent")

K_model       == <<"m","o","d","e","l">>
K_messages    == <<"m","e","s","s","a","g","e","s">>
K_stream      == <<"s","t","r","e","a","m">>
K_options     == <<"o","p","t","i","o","n","s">>
K_role        == <<"r","o","l","e">>
K_content     == <<"c","o","n","t","e","n","t">>
K_tools       == <<"t","o","o","l","s">>
K_thinking    == <<"t","h","i","n","k","i","n","g">>
K_tool_stream == <<"t","o","o","l","_","s","t","r","e","a","m">>
K_type        == <<"t","y","p","e">>
K_temperature == <<"t","e","m","p","e","r","a","t","u","r","e">>
K_seed        == <<"s","e","e","d">>

\* encoding/json: the struct field a key decodes into: the field whose json
\* name is the key, else one whose name equals it under case folding.
FieldFor(key, names) ==
  IF key \in names THEN key
  ELSE IF \E f \in names : EqualFold(f, key)
    THEN CHOOSE f \in names : EqualFold(f, key)
    ELSE <<>>

\* api.Message: Role string, Content any.
RECURSIVE DecodeMessageMembers(_, _)
DecodeMessageMembers(ms, acc) ==
  IF ms = <<>> THEN acc
  ELSE LET f == FieldFor(ms[1][1], {K_role, K_content})
           v == ms[1][2]
           next ==
             IF f = K_role
               THEN IF v.t = "str" THEN [acc EXCEPT !.Role = v.s]
                    ELSE IF v.t = "null" THEN acc
                    ELSE [acc EXCEPT !.err = TRUE]
               ELSE acc
       IN DecodeMessageMembers(Tail(ms), next)

DecodeMessage(v) ==
  IF v.t = "obj" THEN DecodeMessageMembers(v.m, [Role |-> <<>>, err |-> FALSE])
  ELSE IF v.t = "null" THEN [Role |-> <<>>, err |-> FALSE]
  ELSE [Role |-> <<>>, err |-> TRUE]

\* api.ChatRequest: Model string, Messages []Message, Stream *bool,
\* Options map[string]any.  A type mismatch is remembered and decoding goes on.
RECURSIVE DecodeRequestMembers(_, _)
DecodeRequestMembers(ms, acc) ==
  IF ms = <<>> THEN acc
  ELSE LET f == FieldFor(ms[1][1], {K_model, K_messages, K_stream, K_options})
           v == ms[1][2]
           next ==
             IF f = K_model
               THEN IF v.t = "str" THEN [acc EXCEPT !.Model = v.s]
                    ELSE IF v.t = "null" THEN acc
                    ELSE [acc EXCEPT !.err = TRUE]
             ELSE IF f = K_messages
               THEN IF v.t = "arr"
                      THEN LET ds == [i \in DOMAIN v.a |-> DecodeMessage(v.a[i])]
                           IN [acc EXCEPT
                                 !.Messages = [i \in DOMAIN ds |-> [Role |-> ds[i].Role]],
                                 !.err = acc.err \/ \E i \in DOMAIN ds : ds[i].err]
                    ELSE IF v.t = "null" THEN [acc EXCEPT !.Messages = <<>>]
                    ELSE [acc EXCEPT !.err = TRUE]
             ELSE IF f = K_stream
               THEN IF v.t \in {"bool", "null"} THEN acc ELSE [acc EXCEPT !.err = TRUE]
             ELSE IF f = K_options
               THEN IF v.t \in {"obj", "null"} THEN acc ELSE [acc EXCEPT !.err = TRUE]
             ELSE acc
       IN DecodeRequestMembers(Tail(ms), next)

\* json.Unmarshal(bodyBytes, &req)
UnmarshalChatRequest(body) ==
  LET zero == [Model |-> <<>>, Messages |-> <<>>, err |-> FALSE]
  IN IF ~body.valid THEN [zero EXCEPT !.err = TRUE]
     ELSE IF body.v.t = "obj" THEN DecodeRequestMembers(body.v.m, zero)
     ELSE IF body.v.t = "null" THEN zero
     ELSE [zero EXCEPT !.err = TRUE]

\* json.Unmarshal(bodyBytes, &bodyMap): keys as spelled, the last one wins.
EmptyMap == [k \in {} |-> JNull]

RECURSIVE MapOfMembers(_)
MapOfMembers(ms) ==
  IF ms = <<>> THEN EmptyMap
  ELSE LET n    == Len(ms)
           rest == MapOfMembers(SubSeq(ms, 1, n - 1))
       IN [k \in DOMAIN rest \cup {ms[n][1]} |->
             IF k = ms[n][1] THEN ms[n][2] ELSE rest[k]]

\* An integer literal too wide for the checker's integers: hi * BigUnit + lo.
BigUnitBits == 30
BigUnit == 2^BigUnitBits
JBig(hi, lo) == [t |-> "num", hi |-> hi, lo |-> lo]

\* The number of bits of h.
BitLen(h) == CHOOSE k \in 0..BigUnitBits : h < 2^k /\ (k = 0 \/ h >= 2^(k - 1))

\* A number decoded into an any is a float64: 53 bits of significand, the rest
\* rounded to nearest, ties to even.
Float64Bits == 53

RoundToFloat64(hi, lo) ==
  LET drop == BitLen(hi) + BigUnitBits - Float64Bits
  IN IF hi = 0 \/ drop <= 0 THEN JBig(hi, lo)
     ELSE LET unit == 2^drop
              q    == lo \div unit
              r    == lo % unit
              up   == 2 * r > unit \/ (2 * r = unit /\ q % 2 = 1)
              lo2  == (IF up THEN q + 1 ELSE q) * unit
          IN IF lo2 = BigUnit THEN JBig(hi + 1, 0) ELSE JBig(hi, lo2)

\* A value decoded into an any: numbers become float64, at every depth.  (The
\* numbers written JNum(n) are narrow enough to be exact.)
RECURSIVE DecodeAny(_)
DecodeAny(v) ==
  IF v.t = "num" /\ "hi" \in DOMAIN v THEN RoundToFloat64(v.hi, v.lo)
  ELSE IF v.t = "arr" THEN JArr([i \in DOMAIN v.a |-> DecodeAny(v.a[i])])
  ELSE IF v.t = "obj"
    THEN JObj([i \in DOMAIN v.m |-> << v.m[i][1], DecodeAny(v.m[i][2]) >>])
  ELSE v

DecodeMap(d) == [k \in DOMAIN d |-> DecodeAny(d[k])]

UnmarshalMap(body) ==
  IF ~body.valid THEN [m |-> EmptyMap, err |-> TRUE]
  ELSE IF body.v.t = "obj" THEN [m |-> DecodeMap(MapOfMembers(body.v.m)), err |-> FALSE]
  ELSE IF body.v.t = "null" THEN [m |-> EmptyMap, err |-> FALSE]
  ELSE [m |-> EmptyMap, err |-> TRUE]

\* Set one key of a map.
MapSet(m, k, v) == [x \in DOMAIN m \cup {k} |-> IF x = k THEN v ELSE m[x]]

(***************************************************************************)
(* Errors (internal/api/errors.go) and handleError.                        *)
(***************************************************************************)
StatusBadRequest == 400
StatusNotFound == 404
StatusClientClosed == 499
StatusInternalServerError == 500
StatusBadGateway == 502

Msg(f)        == [fmt |-> f]
MsgName(f, n) == [fmt |-> f, name |-> n]
MsgIdx(f, i)  == [fmt |-> f, idx |-> i]

NoError == [type |-> "nil"]
ErrCanceled == [type |-> "context.Canceled"]
ErrBadRequest(m)     == [type |-> "StatusError", StatusCode |-> StatusBadRequest, ErrorMessage |-> m]
ErrNotFound(m)       == [type |-> "StatusError", StatusCode |-> StatusNotFound, ErrorMessage |-> m]
ErrInternalServer(m) == [type |-> "StatusError", StatusCode |-> StatusInternalServerError, ErrorMessage |-> m]
ErrBadGateway(m)     == [type |-> "StatusError", StatusCode |-> StatusBadGateway, ErrorMessage |-> m]

\* The response handleError writes: its status and the value of "error".
handleError(err) ==
  IF err.type = "context.Canceled"
    THEN [status |-> StatusClientClosed, error |-> Msg("request canceled")]
  ELSE IF err.type = "StatusError"
    THEN [status |-> err.StatusCode, error |-> err.ErrorMessage]
  ELSE [status |-> StatusInternalServerError, error |-> Msg("err.Error()")]

(***************************************************************************)
(* handleChatCompletions: validation.                                      *)
(***************************************************************************)
validRoles == { <<"s","y","s","t","e","m">>, <<"u","s","e","r">>,
                <<"a","s","s","i","s","t","a","n","t">>, <<"t","o","o","l">> }

\* The error of the first check that fails, in the order of the handler.
ValidateRequest(r) ==
  IF r.err
    THEN ErrBadRequest(Msg("Invalid request: <decode error>"))
  ELSE IF r.Model = <<>>
    THEN ErrBadRequest(Msg("Error:Field validation for 'Model' failed on the 'required' tag"))
  ELSE IF Len(r.Messages) = 0
    THEN ErrBadRequest(Msg("Error:Field validation for 'Messages' failed on the 'required' tag"))
  ELSE IF \E i \in DOMAIN r.Messages : r.Messages[i].Role \notin validRoles
    THEN LET i == CHOOSE i \in DOMAIN r.Messages :
                    /\ r.Messages[i].Role \notin validRoles
                    /\ \A j \in 1..(i - 1) : r.Messages[j].Role \in validRoles
         IN IF r.Messages[i].Role = <<>>
              THEN ErrBadRequest(MsgIdx(
                     "Error:Field validation for 'Role' failed on the 'required' tag at message %d", i - 1))
              ELSE ErrBadRequest(MsgIdx(
                     "Error:Field validation for 'Role' failed on the 'oneof' tag at message %d", i - 1))
  ELSE IF ~IsValidModel(r.Model)
    THEN ErrNotFound(MsgName("model '%s' not found", r.Model))
  ELSE NoError

(***************************************************************************)
(* handleChatCompletions: augmentation of the open document.               *)
(***************************************************************************)
ThinkingEnabled == JObj(<< <<K_type, JStr(<<"e","n","a","b","l","e","d">>)>> >>)

\* Faulty variant: thinking is injected only when the caller sent none.
InjectThinking_IfAbsent(m) ==
  IF K_thinking \in DOMAIN m THEN m ELSE MapSet(m, K_thinking, ThinkingEnabled)

\* bodyMap["thinking"] = map[string]string{"type": "enabled"}
InjectThinking(m) == MapSet(m, K_thinking, ThinkingEnabled)

\* Faulty variant: a stream key of any value counts as streaming.
InjectToolStream_StreamPresent(m, modelName) ==
  IF modelName = <<"G","L","M","-","4",".","6">>
    THEN LET hasTools == K_tools \in DOMAIN m
             stream   == K_stream \in DOMAIN m
         IN IF hasTools /\ stream THEN MapSet(m, K_tool_stream, JBool(TRUE)) ELSE m
    ELSE m

\* if modelName == "GLM-4.6" { hasTools, stream ... bodyMap["tool_stream"] = true }
InjectToolStream(m, modelName) ==
  IF modelName = <<"G","L","M","-","4",".","6">>
    THEN LET hasTools == K_tools \in DOMAIN m
             stream   == K_stream \in DOMAIN m /\ m[K_stream] = JBool(TRUE)
         IN IF hasTools /\ stream THEN MapSet(m, K_tool_stream, JBool(TRUE)) ELSE m
    ELSE m

AugmentBody(m, modelName) == InjectToolStream(InjectThinking(m), modelName)

(***************************************************************************)
(* Inbound request bodies.                                                 *)
(***************************************************************************)
S_hi      == <<"h","i">>
R_user    == <<"u","s","e","r">>
R_system  == <<"s","y","s","t","e","m">>
R_USER    == <<"U","S","E","R">>
R_invalid == <<"b","o","t">>
K_Role    == <<"R","o","l","e">>
K_Model   == <<"M","o","d","e","l">>
K_MODEL   == <<"M","O","D","E","L">>

N_GLM46   == <<"G","L","M","-","4",".","6">>
N_glm46   == <<"g","l","m","-","4",".","6">>
N_GLM47   == <<"G","L","M","-","4",".","7">>
N_glm47   == <<"g","l","m","-","4",".","7">>
N_GLM45   == <<"G","L","M","-","4",".","5">>
N_glm45   == <<"g","l","m","-","4",".","5">>
N_Air     == <<"G","L","M","-","4",".","5","-","A","i","r">>
N_air     == <<"g","l","m","-","4",".","5","-","a","i","r">>
N_AIR     == <<"G","L","M","-","4",".","5","-","A","I","R">>
N_unknown == <<"U","N","K","N","O","W","N">>
N_gpt4    == <<"g","p","t","-","4">>
N_glm4    == <<"g","l","m","-","4">>

ValidNames   == Casings(N_glm46) \cup {N_GLM47, N_glm47, N_GLM45, N_glm45, N_Air, N_air, N_AIR}
UnknownNames == {N_unknown, N_gpt4, N_glm4}

MsgRole(k, r) == JObj(<< <<k, r>>, <<K_content, JStr(S_hi)>> >>)
M_user    == MsgRole(K_role, JStr(R_user))
M_system  == MsgRole(K_role, JStr(R_system))
M_invalid == MsgRole(K_role, JStr(R_invalid))
M_USER    == MsgRole(K_role, JStr(R_USER))
M_empty   == MsgRole(K_role, JStr(<<>>))
M_null    == MsgRole(K_role, JNull)
M_num     == MsgRole(K_role, JNum(1))
M_norole  == JObj(<< <<K_content, JStr(S_hi)>> >>)
M_Role    == MsgRole(K_Role, JStr(R_user))

ATool == JObj(<< <<K_type, JStr(<<"f","n">>)>> >>)

\* A body that is a JSON object with these members, in this order.
ObjectBody(ms) == [valid |-> TRUE, v |-> JObj(Members(ms))]
\* A body that is no JSON text (the empty body included).
MalformedBody == [valid |-> FALSE, v |-> JNull]

ModelValues ==
  {JAbsent, JNull, JNum(1), JStr(<<>>)} \cup {JStr(n) : n \in ValidNames \cup UnknownNames}

\* A second, differently spelled model key after the other members.
ExtraModelValues == {JAbsent, JStr(N_GLM46), JStr(N_gpt4)}

MessagesValues ==
  { JAbsent, JNull, JStr(S_hi), JArr(<<>>),
    JArr(<<M_user>>), JArr(<<M_system, M_user>>),
    JArr(<<M_invalid>>), JArr(<<M_user, M_invalid>>), JArr(<<M_invalid, M_norole>>),
    JArr(<<M_norole, M_invalid>>), JArr(<<M_USER>>), JArr(<<M_empty>>),
    JArr(<<M_null>>), JArr(<<M_num>>), JArr(<<M_norole>>), JArr(<<M_Role>>),
    JArr(<<JNull>>), JArr(<<JStr(S_hi)>>),
    JArr(<<M_invalid, M_num>>), JArr(<<M_Role, M_invalid>>) }

StreamValues   == {JAbsent, JNull, JBool(TRUE), JBool(FALSE), JStr(<<"t","r","u","e">>), JNum(1)}
ToolsValues    == {JAbsent, JNull, JArr(<<>>), JArr(<<ATool>>)}
ThinkingValues == {JAbsent, JObj(<< <<K_type, JStr(<<"d","i","s","a","b","l","e","d">>)>> >>)}
ToolStreamValues == {JAbsent, JBool(TRUE), JBool(FALSE)}
ExtensionValues  == {JAbsent, JNum(1)}
\* 2^53 + 3 and nothing.
SeedValues       == {JAbsent, JBig(2^23, 3)}

\* Bodies that vary what validation reads.
ValidationBodies ==
  { ObjectBody(<< <<k, mv>>, <<K_messages, msgs>>, <<K_stream, JBool(TRUE)>>,
                  <<K_tools, JArr(<<ATool>>)>>, <<K_MODEL, xv>> >>) :
      k \in {K_model, K_Model}, mv \in ModelValues,
      msgs \in MessagesValues, xv \in ExtraModelValues }

\* Bodies that vary what augmentation reads.
AugmentationBodies ==
  { ObjectBody(<< <<K_model, JStr(n)>>, <<K_messages, JArr(<<M_user>>)>>, <<K_stream, sv>>,
                  <<K_tools, tv>>, <<K_thinking, th>>, <<K_tool_stream, ts>>,
                  <<K_temperature, ex>>, <<K_seed, sd>> >>) :
      n \in ValidNames \cup UnknownNames, sv \in StreamValues, tv \in ToolsValues,
      th \in ThinkingValues, ts \in ToolStreamValues, ex \in ExtensionValues,
      sd \in SeedValues }

OtherBodies ==
  { MalformedBody, [valid |-> TRUE, v |-> JNull], [valid |-> TRUE, v |-> JArr(<<>>)],
    [valid |-> TRUE, v |-> JStr(S_hi)] }

InputBodies == ValidationBodies \cup AugmentationBodies \cup OtherBodies

\* The bodies of the sessions that run to the end of the relay.
SessionBody(n, k, msgs, sv, tv) ==
  ObjectBody(<< <<k, JStr(n)>>, <<K_messages, msgs>>, <<K_stream, sv>>, <<K_tools, tv>> >>)

SessionBodies ==
  { SessionBody(N_GLM46, K_model, JArr(<<M_user>>), JBool(TRUE), JArr(<<ATool>>)),
    SessionBody(N_glm45, K_model, JArr(<<M_system, M_user>>), JAbsent, JAbsent),
    SessionBody(N_GLM47, K_Model, JArr(<<M_user>>), JBool(TRUE), JArr(<<ATool>>)),
    SessionBody(N_unknown, K_model, JArr(<<M_user>>), JBool(TRUE), JAbsent),
    SessionBody(N_GLM46, K_model, JArr(<<M_invalid>>), JBool(TRUE), JAbsent),
    SessionBody(<<>>, K_model, JArr(<<M_user>>), JBool(TRUE), JAbsent),
    MalformedBody }

(***************************************************************************)
(* The upstream.                                                           *)
(***************************************************************************)
\* Client.Timeout of the shared HTTP client, in seconds (0: none).
ClientTimeout == 120

\* The buffer of streamResponse, in bytes.
BufSize == 32 * 1024

UpstreamReplies ==
  { [status |-> 200, headers |-> << <<"Content-Type", "text/event-stream">> >>],
    [status |-> 404, headers |-> << <<"Content-Type", "application/json">> >>],
    [status |-> 500, headers |-> << <<"X-Request-Id", "r1">>, <<"Set-Cookie", "a">>,
                                    <<"Set-Cookie", "b">> >>] }

\* What one read of the upstream body can deliver.
Chunks == { <<"a">>, <<"b","a">> }

(***************************************************************************)
(* State of one proxied request.                                           *)
(***************************************************************************)
VARIABLES
  pc,                \* where handleChatCompletions stands
  body,              \* the inbound request body
  req,               \* the api.ChatRequest decoded from it
  bodyMap,           \* the open document, as augmented
  upstreamReqs,      \* bodies handed to client.Do, in order
  upstreamCtx,       \* the context the outbound request is bound to
  canceled,          \* "no", or the phase in which the inbound context was canceled
  timerFired,        \* the shared client's Timeout has expired for this call
  doErr,             \* the error client.Do returned
  respStatus,        \* status written to the caller (0: none yet)
  respError,         \* the "error" value of a JSON error body written to the caller
  respHeaders,       \* headers added to the caller's response
  headWrites,        \* number of times a status was written to the caller
  upStatus,          \* the upstream response: status
  upHeaders,         \* the upstream response: headers
  upRead,            \* data the reads of the upstream body have returned, in order
  buf,               \* buf[:n] of the last read
  rerr,              \* the error of the last read
  written,           \* chunks written to the caller, in order
  flushes,           \* number of Flush calls
  relayEnd,          \* how streamResponse returned
  bodyCloses,        \* number of resp.Body.Close calls
  writesAfterCancel  \* writes to the caller made while the context was canceled

(***************************************************************************)
(* State of the catalog lookups and of /api/show.                          *)
(***************************************************************************)
VARIABLES
  query,             \* the name the catalog functions are called with
  answer,            \* what they returned
  show,              \* the ShowRequest of handleShow and what it answered
  registry,          \* models.Catalog.Models as it stands
  desc,              \* the *Model a caller of GetModel holds
  tags               \* what /api/tags answered last

catalogVars == << query, answer, show, registry, desc, tags >>

(***************************************************************************)
(* State of the server process and of the requests it serves at once.      *)
(***************************************************************************)
VARIABLES
  sess,              \* per request in the server: the variables of its handler call
  srv                \* the listener, the signal, Shutdown and the exit of the process

serverVars == << sess, srv >>

\* What the actions of one request's handler leave alone.
offRequest == << query, answer, show, registry, desc, tags, sess, srv >>

vars == << pc, body, req, bodyMap, upstreamReqs, upstreamCtx, canceled, timerFired, doErr,
           respStatus, respError, respHeaders, headWrites, upStatus, upHeaders, upRead,
           buf, rerr, written, flushes, relayEnd, bodyCloses, writesAfterCancel,
           query, answer, show, registry, desc, tags, sess, srv >>

requestVars == << body, req, bodyMap, upstreamReqs, upstreamCtx >>
respVars    == << respStatus, respError, respHeaders, headWrites >>
upVars      == << upStatus, upHeaders, upRead, buf, rerr >>
relayVars   == << written, flushes, relayEnd, bodyCloses >>

NoMsg == Msg("none")

InitWith(bodies) ==
  /\ pc = "start"
  /\ body \in bodies
  /\ req = [Model |-> <<>>, Messages |-> <<>>, err |-> FALSE]
  /\ bodyMap = EmptyMap
  /\ upstreamReqs = <<>>
  /\ upstreamCtx = "none"
  /\ canceled = "no"
  /\ timerFired = FALSE
  /\ doErr = "nil"
  /\ respStatus = 0
  /\ respError = NoMsg
  /\ respHeaders = <<>>
  /\ headWrites = 0
  /\ upStatus = 0
  /\ upHeaders = <<>>
  /\ upRead = <<>>
  /\ buf = <<>>
  /\ rerr = "nil"
  /\ written = <<>>
  /\ flushes = 0
  /\ relayEnd = "none"
  /\ bodyCloses = 0
  /\ writesAfterCancel = 0

\* No catalog lookup and no /api/show request is under way.
NoAnswer ==
  [asked |-> FALSE, valid |-> FALSE, found |-> FALSE, model |-> NoModel,
   contextLen |-> 0, canonical |-> <<>>, again |-> <<>>]

NoShow == [Name |-> <<>>, Model |-> <<>>, done |-> FALSE, basename |-> <<>>, contextLen |-> 0]

\* No caller holds a descriptor.
NoDescriptor == [held |-> FALSE, m |-> NoModel, shares |-> 0]

NoTags == << >>

\* The catalog as the composite literal built it; nobody has asked for it.
RegistryIdle ==
  /\ registry = Catalog
  /\ desc = NoDescriptor
  /\ tags = NoTags

CatalogIdle ==
  /\ query = <<>>
  /\ answer = NoAnswer
  /\ show = NoShow
  /\ RegistryIdle

\* The server process is not looked at: it serves no request.
ServerIdle ==
  /\ sess = <<>>
  /\ srv = [listening |-> FALSE, quit |-> FALSE, shutdown |-> FALSE, expired |-> FALSE,
            exit |-> "no"]

Init == InitWith(SessionBodies) /\ CatalogIdle /\ ServerIdle

AfterCancel(n) == IF canceled # "no" THEN writesAfterCancel + n ELSE writesAfterCancel

\* c.JSON(status, {"error": ...}), then return.
RespondJSON(r) ==
  /\ respStatus' = r.status
  /\ respError' = r.error
  /\ respHeaders' = Append(respHeaders, <<"Content-Type", "application/json; charset=utf-8">>)
  /\ headWrites' = headWrites + 1
  /\ writesAfterCancel' = AfterCancel(1)
  /\ pc' = "done"

\* io.ReadAll(c.Request.Body) succeeds.
ReadBody ==
  /\ pc = "start"
  /\ pc' = "validate"
  /\ UNCHANGED << requestVars, canceled, timerFired, doErr, respVars, upVars, relayVars,
                  writesAfterCancel >>
  /\ UNCHANGED offRequest

\* io.ReadAll(c.Request.Body) fails.
ReadBodyFail ==
  /\ pc = "start"
  /\ RespondJSON(handleError(ErrBadRequest(Msg("Failed to read request body"))))
  /\ UNCHANGED << requestVars, canceled, timerFired, doErr, upVars, relayVars >>
  /\ UNCHANGED offRequest

\* Faulty variant: the document goes on to augmentation whatever validation found.
Validate_NoGate ==
  /\ pc = "validate"
  /\ req' = UnmarshalChatRequest(body)
  /\ pc' = "augment"
  /\ UNCHANGED << body, bodyMap, upstreamReqs, upstreamCtx, canceled, timerFired, doErr,
                  respVars, upVars, relayVars, writesAfterCancel >>
  /\ UNCHANGED offRequest

\* The strict decode, the field checks and the catalog check.
Validate ==
  /\ pc = "validate"
  /\ LET r == UnmarshalChatRequest(body)
         e == ValidateRequest(r)
     IN /\ req' = r
        /\ IF e = NoError
             THEN /\ pc' = "augment"
                  /\ UNCHANGED << respVars, writesAfterCancel >>
             ELSE RespondJSON(handleError(e))
  /\ UNCHANGED << body, bodyMap, upstreamReqs, upstreamCtx, canceled, timerFired, doErr,
                  upVars, relayVars >>
  /\ UNCHANGED offRequest

\* The decode into a map, the injections and json.Marshal.
Augment ==
  /\ pc = "augment"
  /\ LET u == UnmarshalMap(body)
     IN IF u.err
          THEN /\ RespondJSON(handleError(ErrBadRequest(Msg("Invalid request: <decode error>"))))
               /\ UNCHANGED bodyMap
          ELSE /\ bodyMap' = AugmentBody(u.m, req.Model)
               /\ pc' = "send"
               /\ UNCHANGED << respVars, writesAfterCancel >>
  /\ UNCHANGED << body, req, upstreamReqs, upstreamCtx, canceled, timerFired, doErr,
                  upVars, relayVars >>
  /\ UNCHANGED offRequest

\* http.NewRequestWithContext(ctx, ...): the context of the outbound request.
OutboundContext == "request"

\* The outbound request is built and client.Do is called with it.
SendUpstream ==
  /\ pc = "send"
  /\ upstreamCtx' = OutboundContext
  /\ upstreamReqs' = Append(upstreamReqs, bodyMap)
  /\ pc' = "inflight"
  /\ UNCHANGED << body, req, bodyMap, canceled, timerFired, doErr, respVars, upVars,
                  relayVars, writesAfterCancel >>
  /\ UNCHANGED offRequest

(***************************************************************************)
(* The inbound context and the shared client's timer.                      *)
(***************************************************************************)
PhaseOf(p) ==
  IF p \in {"start", "validate", "augment", "send"} THEN "before"
  ELSE IF p = "inflight" THEN "inflight"
  ELSE IF p = "close" THEN "closing"
  ELSE "relay"

\* The inbound request's context is canceled (the client went away).
Cancel ==
  /\ pc # "done"
  /\ canceled = "no"
  /\ canceled' = PhaseOf(pc)
  /\ UNCHANGED << pc, requestVars, timerFired, doErr, respVars, upVars, relayVars,
                  writesAfterCancel >>
  /\ UNCHANGED offRequest

\* The outbound call sees the cancellation of the inbound context.
UpstreamSeesCancel == canceled # "no" /\ upstreamCtx = "request"

\* Client.Timeout runs from the start of Do until the body has been read.
TimerFire ==
  /\ ClientTimeout # 0
  /\ pc \in {"inflight", "gotresp", "check", "read", "write", "flush"}
  /\ ~timerFired
  /\ timerFired' = TRUE
  /\ UNCHANGED << pc, requestVars, canceled, doErr, respVars, upVars, relayVars,
                  writesAfterCancel >>
  /\ UNCHANGED offRequest

(***************************************************************************)
(* handleChatCompletions: the upstream call returns.                       *)
(***************************************************************************)
\* Faulty variant: every error of Do is answered 502, a cancellation too.
DoErrorResponse_Always502(e) ==
  handleError(ErrBadGateway(Msg("Failed to connect to upstream server")))

\* Faulty variant: a connection error is passed to handleError as it is.
DoErrorResponse_Unwrapped(e) ==
  IF e = "canceled"
    THEN [status |-> StatusClientClosed, error |-> Msg("request canceled")]
    ELSE handleError([type |-> "net.OpError"])

\* if err != nil { if errors.Is(err, context.Canceled) {499} else {502} }
DoErrorResponse(e) ==
  IF e = "canceled"
    THEN [status |-> StatusClientClosed, error |-> Msg("request canceled")]
    ELSE handleError(ErrBadGateway(Msg("Failed to connect to upstream server")))

\* Faulty variant: a failed call is issued again.
DoFails_Retry(e) ==
  /\ doErr' = e
  /\ pc' = "send"
  /\ UNCHANGED << requestVars, canceled, timerFired, respVars, upVars, relayVars,
                  writesAfterCancel >>

DoFails(e) ==
  /\ doErr' = e
  /\ RespondJSON(DoErrorResponse(e))
  /\ UNCHANGED << requestVars, canceled, timerFired, upVars, relayVars >>

\* A context that is already canceled when Do is called ends the call at once.
CallAttempted == ~(canceled = "before" /\ upstreamCtx = "request")

\* Do returns context.Canceled.
DoCanceled ==
  /\ pc = "inflight"
  /\ UpstreamSeesCancel
  /\ DoFails("canceled")
  /\ UNCHANGED offRequest

\* Do returns a connection error.
DoConnectFail ==
  /\ pc = "inflight"
  /\ CallAttempted
  /\ DoFails("connect")
  /\ UNCHANGED offRequest

\* Do returns the error of the expired Client.Timeout.
DoTimeout ==
  /\ pc = "inflight"
  /\ timerFired
  /\ DoFails("timeout")
  /\ UNCHANGED offRequest

\* Do returns a response, of any status.
DoResponse ==
  /\ pc = "inflight"
  /\ CallAttempted
  /\ \E r \in UpstreamReplies :
       /\ upStatus' = r.status
       /\ upHeaders' = r.headers
  /\ pc' = "gotresp"
  /\ UNCHANGED << requestVars, canceled, timerFired, doErr, respVars, upRead, buf, rerr,
                  relayVars, writesAfterCancel >>
  /\ UNCHANGED offRequest

\* Faulty variant: Header().Set in place of Header().Add keeps one value per name.
AddHeaders_Set(h, up) ==
  LET IsLast(i) == \A j \in DOMAIN up : (j > i) => up[j][1] # up[i][1]
      F[i \in 0..Len(up)] ==
        IF i = 0 THEN h ELSE IF IsLast(i) THEN Append(F[i-1], up[i]) ELSE F[i-1]
  IN F[Len(up)]

\* for key, values := range resp.Header { for _, value := range values { Header().Add } }
AddHeaders(h, up) == h \o up

\* Faulty variant: an upstream error status is answered with an error of the proxy.
WriteHead_OwnError ==
  /\ pc = "gotresp"
  /\ IF upStatus >= 400
       THEN RespondJSON(handleError(ErrBadGateway(Msg("Failed to connect to upstream server"))))
       ELSE /\ respHeaders' = AddHeaders(respHeaders, upHeaders)
            /\ respStatus' = upStatus
            /\ headWrites' = headWrites + 1
            /\ writesAfterCancel' = AfterCancel(1)
            /\ pc' = "check"
            /\ UNCHANGED respError
  /\ UNCHANGED << requestVars, canceled, timerFired, doErr, upVars, relayVars >>
  /\ UNCHANGED offRequest

\* The upstream headers are added and the upstream status is set.
WriteHead ==
  /\ pc = "gotresp"
  /\ respHeaders' = AddHeaders(respHeaders, upHeaders)
  /\ respStatus' = upStatus
  /\ headWrites' = headWrites + 1
  /\ writesAfterCancel' = AfterCancel(1)
  /\ pc' = "check"
  /\ UNCHANGED << requestVars, canceled, timerFired, doErr, respError, upVars, relayVars >>
  /\ UNCHANGED offRequest

(***************************************************************************)
(* streamResponse.                                                         *)
(***************************************************************************)
\* Faulty variant: the body is closed only after a relay that completed.
RelayReturns_LeakOnError(how) ==
  /\ relayEnd' = how
  /\ pc' = IF how = "completed" THEN "close" ELSE "done"

\* streamResponse returns; the handler returns and the deferred Close runs.
RelayReturns(how) ==
  /\ relayEnd' = how
  /\ pc' = "close"

\* Faulty variant: the relay does not look at the context.
CtxDone_Never == FALSE

\* select { case <-ctx.Done(): return ctx.Err(); default: }
CtxDone == canceled # "no"

\* Faulty variant: the context is looked at before the first read only.
CheckCtx_OnlyFirst ==
  /\ pc = "check"
  /\ IF CtxDone /\ upRead = <<>> THEN RelayReturns("ctx") ELSE pc' = "read" /\ UNCHANGED relayEnd
  /\ UNCHANGED << requestVars, canceled, timerFired, doErr, respVars, upVars, written,
                  flushes, bodyCloses, writesAfterCancel >>
  /\ UNCHANGED offRequest

CheckCtx ==
  /\ pc = "check"
  /\ IF CtxDone THEN RelayReturns("ctx") ELSE pc' = "read" /\ UNCHANGED relayEnd
  /\ UNCHANGED << requestVars, canceled, timerFired, doErr, respVars, upVars, written,
                  flushes, bodyCloses, writesAfterCancel >>
  /\ UNCHANGED offRequest

\* Faulty variant: the end of the stream does not end the loop.
AfterRead_EOFIgnored(e) ==
  IF e \notin {"nil", "EOF"} THEN RelayReturns("read")
  ELSE pc' = "check" /\ UNCHANGED relayEnd

\* What follows a read once its data, if any, has been written and flushed.
AfterRead(e) ==
  IF e = "EOF" THEN RelayReturns("completed")
  ELSE IF e # "nil" THEN RelayReturns("read")
  ELSE pc' = "check" /\ UNCHANGED relayEnd

\* Faulty variant: the error of a read is looked at before its bytes are written.
ReadData_ErrorFirst ==
  /\ pc = "read"
  /\ Len(upRead) < MaxChunks
  /\ \E c \in Chunks, e \in {"nil", "EOF", "error"} :
       /\ Len(c) <= BufSize
       /\ buf' = c
       /\ rerr' = e
       /\ upRead' = Append(upRead, c)
       /\ IF e = "nil" THEN pc' = "write" /\ UNCHANGED relayEnd ELSE AfterRead(e)
  /\ UNCHANGED << requestVars, canceled, timerFired, doErr, respVars, upStatus, upHeaders,
                  written, flushes, bodyCloses, writesAfterCancel >>
  /\ UNCHANGED offRequest

\* n, err := body.Read(buf) with n > 0.
ReadData ==
  /\ pc = "read"
  /\ Len(upRead) < MaxChunks
  /\ \E c \in Chunks, e \in {"nil", "EOF", "error"} :
       /\ Len(c) <= BufSize
       /\ buf' = c
       /\ rerr' = e
       /\ upRead' = Append(upRead, c)
  /\ pc' = "write"
  /\ UNCHANGED << requestVars, canceled, timerFired, doErr, respVars, upStatus, upHeaders,
                  relayVars, writesAfterCancel >>
  /\ UNCHANGED offRequest

\* n, err := body.Read(buf) with n = 0: the stream has ended, or failed.
ReadEnd ==
  /\ pc = "read"
  /\ \E e \in {"EOF", "error", "canceled", "timeout"} :
       /\ e = "canceled" => UpstreamSeesCancel
       /\ e = "timeout" => timerFired
       /\ rerr' = e
       /\ buf' = <<>>
       /\ AfterRead(e)
  /\ UNCHANGED << requestVars, canceled, timerFired, doErr, respVars, upStatus, upHeaders,
                  upRead, written, flushes, bodyCloses, writesAfterCancel >>
  /\ UNCHANGED offRequest

\* Faulty variant: the chunk is written twice.
WriteChunk_Twice ==
  /\ pc = "write"
  /\ written' = written \o <<buf, buf>>
  /\ writesAfterCancel' = AfterCancel(2)
  /\ pc' = "flush"
  /\ UNCHANGED << requestVars, canceled, timerFired, doErr, respVars, upVars, flushes,
                  relayEnd, bodyCloses >>
  /\ UNCHANGED offRequest

\* c.Writer.Write(buf[:n]) succeeds.
WriteChunk ==
  /\ pc = "write"
  /\ written' = Append(written, buf)
  /\ writesAfterCancel' = AfterCancel(1)
  /\ pc' = "flush"
  /\ UNCHANGED << requestVars, canceled, timerFired, doErr, respVars, upVars, flushes,
                  relayEnd, bodyCloses >>
  /\ UNCHANGED offRequest

\* Faulty variant: the handler answers the failed write with a server error.
WriteFail_Escalated ==
  /\ pc = "write"
  /\ writesAfterCancel' = AfterCancel(1)
  /\ RelayReturns("write")
  /\ respStatus' = StatusInternalServerError
  /\ respError' = Msg("Streaming failed")
  /\ headWrites' = headWrites + 1
  /\ UNCHANGED << requestVars, canceled, timerFired, doErr, respHeaders, upVars, written,
                  flushes, bodyCloses >>
  /\ UNCHANGED offRequest

\* c.Writer.Write(buf[:n]) fails: return writeErr.
WriteFail ==
  /\ pc = "write"
  /\ writesAfterCancel' = AfterCancel(1)
  /\ RelayReturns("write")
  /\ UNCHANGED << requestVars, canceled, timerFired, doErr, respVars, upVars, written,
                  flushes, bodyCloses >>
  /\ UNCHANGED offRequest

\* c.Writer.Flush(), then the error of the read is looked at.
Flush ==
  /\ pc = "flush"
  /\ flushes' = flushes + 1
  /\ AfterRead(rerr)
  /\ UNCHANGED << requestVars, canceled, timerFired, doErr, respVars, upVars, written,
                  bodyCloses, writesAfterCancel >>
  /\ UNCHANGED offRequest

\* Faulty variant: a relay that ended with an error is answered with an error
\* response after the upstream's head.
CloseBody_ReportsError ==
  /\ pc = "close"
  /\ bodyCloses' = bodyCloses + 1
  /\ pc' = "done"
  /\ IF relayEnd \in {"read", "write", "ctx"}
       THEN /\ headWrites' = headWrites + 1
            /\ respStatus' = StatusInternalServerError
            /\ respError' = Msg("Streaming failed")
            /\ UNCHANGED respHeaders
       ELSE UNCHANGED respVars
  /\ UNCHANGED << requestVars, canceled, timerFired, doErr, upVars, written,
                  flushes, relayEnd, writesAfterCancel >>
  /\ UNCHANGED offRequest

\* defer resp.Body.Close()
CloseBody ==
  /\ pc = "close"
  /\ bodyCloses' = bodyCloses + 1
  /\ pc' = "done"
  /\ UNCHANGED << requestVars, canceled, timerFired, doErr, respVars, upVars, written,
                  flushes, relayEnd, writesAfterCancel >>
  /\ UNCHANGED offRequest

(***************************************************************************)
(* Specifications.                                                         *)
(***************************************************************************)
Next ==
  \/ ReadBody \/ ReadBodyFail \/ Validate \/ Augment \/ SendUpstream
  \/ Cancel \/ TimerFire
  \/ DoCanceled \/ DoConnectFail \/ DoTimeout \/ DoResponse
  \/ WriteHead \/ CheckCtx \/ ReadData \/ ReadEnd \/ WriteChunk \/ WriteFail \/ Flush
  \/ CloseBody

\* One request, from its arrival to the end of the handler.
Spec == Init /\ [][Next]_vars

\* A step of the loop of streamResponse.
RelayStep == CheckCtx \/ ReadData \/ ReadEnd \/ WriteChunk \/ WriteFail \/ Flush

\* The same, where the loop of streamResponse keeps running: its goroutine is
\* scheduled, a read of the source returns and a write to the caller returns.
SpecRelayFair == Spec /\ WF_vars(RelayStep)

\* Every input body, up to the call of client.Do.
InitNormalize == InitWith(InputBodies) /\ CatalogIdle /\ ServerIdle

NextNormalize == ReadBody \/ ReadBodyFail \/ Validate \/ Augment \/ SendUpstream

(***************************************************************************)
(* The catalog lookups and handleShow.                                     *)
(***************************************************************************)
N_flash == <<"g","l","m","-","4",".","7","-","f","l","a","s","h">>

\* Names the lookups are called with.
QueryNames ==
  Casings(N_air) \cup ValidNames \cup UnknownNames \cup {<<>>, N_flash}

ShowNames == {<<>>, N_GLM46, N_glm46, N_GLM45, N_AIR, N_unknown}

\* The request handling variables, at rest.
RequestIdle == InitWith({MalformedBody})

requestState ==
  << pc, body, req, bodyMap, upstreamReqs, upstreamCtx, canceled, timerFired, doErr,
     respStatus, respError, respHeaders, headWrites, upStatus, upHeaders, upRead,
     buf, rerr, written, flushes, relayEnd, bodyCloses, writesAfterCancel >>

\* The four lookups of catalog.go are called with one name.
LookupModel ==
  /\ ~answer.asked
  /\ answer' =
       [asked      |-> TRUE,
        valid      |-> IsValidModel(query),
        found      |-> GetModel(query).found,
        model      |-> GetModel(query).m,
        contextLen |-> GetModelContextLength(query),
        canonical  |-> GetCanonicalModelName(query),
        again      |-> GetCanonicalModelName(GetCanonicalModelName(query))]
  /\ UNCHANGED << query, show, registry, desc, tags, requestState, serverVars >>

\* handleShow: the name, else the model, else "GLM-4.6"; its context length.
handleShow ==
  /\ ~show.done
  /\ LET modelName == IF show.Name # <<>> THEN show.Name
                      ELSE IF show.Model # <<>> THEN show.Model
                      ELSE <<"G","L","M","-","4",".","6">>
     IN show' = [show EXCEPT !.done = TRUE,
                             !.basename = modelName,
                             !.contextLen = GetModelContextLength(modelName)]
  /\ UNCHANGED << query, answer, registry, desc, tags, requestState, serverVars >>

InitCatalog ==
  /\ RequestIdle
  /\ ServerIdle
  /\ query \in QueryNames
  /\ answer = NoAnswer
  /\ \E n \in ShowNames, m \in ShowNames : show = [NoShow EXCEPT !.Name = n, !.Model = m]
  /\ RegistryIdle

NextCatalog == LookupModel \/ handleShow

\* Lookups in the catalog, directly and through /api/show.
SpecCatalog == InitCatalog /\ [][NextCatalog]_vars

SpecNormalize == InitNormalize /\ [][NextNormalize]_vars

(***************************************************************************)
(* The catalog as a value in memory: /api/tags and the holders of what     *)
(* GetModel returns.  (Names and context lengths are strings and ints; no  *)
(* holder of a descriptor reaches them, so the lookups above read them      *)
(* from the literal.)                                                      *)
(***************************************************************************)
\* handleTags: c.JSON(http.StatusOK, models.Catalog).
handleTags ==
  /\ tags' = registry
  /\ UNCHANGED << query, answer, show, registry, desc, requestState, serverVars >>

DescriptorNames == {N_GLM46, N_glm45, N_unknown}

\* model, ok := models.GetModel(name): return &m, true, where m is the loop's
\* copy of the entry.  The copy's Capabilities and Details.Families are slices
\* over the arrays of the entry it was copied from.
HoldDescriptor ==
  /\ ~desc.held
  /\ \E name \in DescriptorNames :
       LET hits == {i \in DOMAIN registry :
                      registry[i].Name = name \/ registry[i].Model = name}
       IN desc' = IF hits = {} THEN [NoDescriptor EXCEPT !.held = TRUE]
                  ELSE [held |-> TRUE, m |-> registry[First(hits)], shares |-> First(hits)]
  /\ UNCHANGED << query, answer, show, registry, tags, requestState, serverVars >>

\* The holder assigns to a field of the descriptor: model.Name = "x".
WriteDescriptorField ==
  /\ desc.held /\ desc.shares # 0
  /\ desc' = [desc EXCEPT !.m.Name = <<"x">>]
  /\ UNCHANGED << query, answer, show, registry, tags, requestState, serverVars >>

\* The holder assigns to an element of a slice of the descriptor:
\* model.Capabilities[0] = "x" or model.Details.Families[0] = "x".
WriteDescriptorElement ==
  /\ desc.held /\ desc.shares # 0
  /\ \/ /\ desc' = [desc EXCEPT !.m.Capabilities[1] = "x"]
        /\ registry' = [registry EXCEPT ![desc.shares].Capabilities[1] = "x"]
     \/ /\ desc' = [desc EXCEPT !.m.Families[1] = "x"]
        /\ registry' = [registry EXCEPT ![desc.shares].Families[1] = "x"]
  /\ UNCHANGED << query, answer, show, tags, requestState, serverVars >>

InitRegistry ==
  /\ InitWith(SessionBodies)
  /\ ServerIdle
  /\ query = <<>>
  /\ answer = NoAnswer
  /\ \E n \in {<<>>, N_GLM45} : show = [NoShow EXCEPT !.Name = n]
  /\ RegistryIdle

NextRegistry ==
  \/ ReadBody \/ Validate \/ handleTags \/ handleShow
  \/ HoldDescriptor \/ WriteDescriptorField \/ WriteDescriptorElement

\* Requests to the endpoints that read the catalog, and a caller of GetModel.
SpecRegistry == InitRegistry /\ [][NextRegistry]_vars

(***************************************************************************)
(* The inbound body as an open document.                                   *)
(***************************************************************************)
IsObjectBody == body.valid /\ body.v.t = "obj"

\* The document's members by key as spelled (meaningful for an object body).
Doc == MapOfMembers(body.v.m)

HasString(d, k) == k \in DOMAIN d /\ d[k].t = "str"

\* The message is an object whose role is one of system/user/assistant/tool.
MessageHasValidRole(m) ==
  /\ m.t = "obj"
  /\ HasString(MapOfMembers(m.m), K_role)
  /\ MapOfMembers(m.m)[K_role].s \in validRoles

DocHasModel == IsObjectBody /\ HasString(Doc, K_model) /\ Doc[K_model].s # <<>>

DocHasMessages ==
  /\ IsObjectBody
  /\ K_messages \in DOMAIN Doc
  /\ Doc[K_messages].t = "arr"
  /\ Len(Doc[K_messages].a) > 0

DocRolesValid ==
  /\ DocHasMessages
  /\ \A i \in DOMAIN Doc[K_messages].a : MessageHasValidRole(Doc[K_messages].a[i])

\* The optional fields the handler has a type for hold that type.
DocOptionalsTyped ==
  /\ IsObjectBody
  /\ \A k \in DOMAIN Doc :
       /\ EqualFold(k, K_stream) => Doc[k].t \in {"bool", "null"}
       /\ EqualFold(k, K_options) => Doc[k].t \in {"obj", "null"}

BodyWasRead == respError # Msg("Failed to read request body")

(***************************************************************************)
(* Claims about validation and augmentation (SpecNormalize).               *)
(***************************************************************************)

\* C1 (as stated): a body that is not parseable JSON, or lacks a non-empty
\* model, or lacks a non-empty messages sequence, or holds a message whose
\* role is missing or not system/user/assistant/tool, is answered 400 and no
\* outbound call is made for it.
C1_DefectiveRejected ==
  ~(DocHasModel /\ DocRolesValid) =>
     /\ upstreamReqs = <<>>
     /\ pc = "done" => respStatus = 400

\* C2 (as stated): when the document's model matches a catalog entry under
\* case folding, the model field of every body sent upstream is that entry's
\* lowercase wire name.
C2_ModelIsWireName ==
  \A n \in DOMAIN upstreamReqs :
    (DocHasModel /\ IsValidModel(Doc[K_model].s)) =>
       /\ K_model \in DOMAIN upstreamReqs[n]
       /\ upstreamReqs[n][K_model] = JStr(GetCanonicalModelName(Doc[K_model].s))

\* The wire names for which handlers_test.go expects tool_stream.
ToolStreamCapable == { <<"g","l","m","-","4",".","6">>, <<"g","l","m","-","4",".","7">> }

DocWantsToolStream ==
  /\ DocHasModel
  /\ \E i \in DOMAIN Catalog :
       /\ EqualFold(Catalog[i].Name, Doc[K_model].s)
            \/ EqualFold(Catalog[i].Model, Doc[K_model].s)
       /\ Catalog[i].Model \in ToolStreamCapable
  /\ K_tools \in DOMAIN Doc /\ Doc[K_tools].t = "arr" /\ Len(Doc[K_tools].a) > 0
  /\ K_stream \in DOMAIN Doc /\ Doc[K_stream] = JBool(TRUE)

\* C3 (as stated): tool_stream is true in the body sent upstream exactly when
\* the model is tool-stream capable, tools is a non-empty array and stream is
\* true; otherwise the key tool_stream is absent from that body.
C3_ToolStreamIff ==
  \A n \in DOMAIN upstreamReqs :
    IF DocWantsToolStream
      THEN /\ K_tool_stream \in DOMAIN upstreamReqs[n]
           /\ upstreamReqs[n][K_tool_stream] = JBool(TRUE)
      ELSE K_tool_stream \notin DOMAIN upstreamReqs[n]

\* C6: every body sent upstream holds thinking = {"type": "enabled"}, whatever
\* the inbound body held.
C6_ThinkingEnabled ==
  \A n \in DOMAIN upstreamReqs :
    /\ K_thinking \in DOMAIN upstreamReqs[n]
    /\ upstreamReqs[n][K_thinking] =
         [t |-> "obj", m |-> << <<K_type, [t |-> "str", s |-> <<"e","n","a","b","l","e","d">>]>> >>]

\* C6 witness: a body that carried another thinking value has been sent on.
C6_Witness ==
  /\ upstreamReqs # <<>>
  /\ K_thinking \in DOMAIN Doc
  /\ Doc[K_thinking] # ThinkingEnabled

\* C9 (as stated): in an otherwise valid request whose model matches no
\* catalog entry under case folding, the answer is 404 with the model name as
\* the caller spelled it, and no outbound call is made.
C9_UnknownModel404 ==
  (BodyWasRead /\ DocHasModel /\ DocRolesValid /\ DocOptionalsTyped
     /\ ~IsValidModel(Doc[K_model].s)) =>
     /\ upstreamReqs = <<>>
     /\ pc = "done" =>
          /\ respStatus = 404
          /\ respError = MsgName("model '%s' not found", Doc[K_model].s)

(***************************************************************************)
(* Claims about the upstream call and the relay (Spec).                    *)
(***************************************************************************)
\* The cancellation fired after the upstream call had started and before the
\* relay had returned.
CanceledMidFlight == canceled \in {"inflight", "relay"}

\* s is a prefix of t.
IsPrefix(s, t) == Len(s) <= Len(t) /\ \A i \in 1..Len(s) : s[i] = t[i]

\* C4 (as stated): once the inbound context is canceled in mid-flight, the
\* outbound call sees the cancellation and nothing more is written to the
\* caller's response, an error body included.
C4_NoWriteAfterCancel ==
  CanceledMidFlight =>
    /\ upstreamCtx = "request"
    /\ writesAfterCancel = 0

\* C4 (amended): the outbound call is bound to the inbound context, so it
\* observes the same cancellation; after a cancellation in mid-flight the
\* handler makes at most one more write to the caller's response (the error
\* body of the failed call, or the status or the chunk it had in hand), no
\* chunk is written twice, and once the relay's check before a read has seen
\* the cancellation everything read has been written and nothing follows.
C4_AtMostOneWriteAfterCancel ==
  /\ upstreamReqs # <<>> => upstreamCtx = "request"
  /\ CanceledMidFlight =>
       /\ writesAfterCancel <= 1
       /\ IsPrefix(written, upRead)
  /\ relayEnd = "ctx" =>
       /\ CtxDone
       /\ written = upRead
       /\ pc \in {"close", "done"}

\* C4 witness: the context was canceled while a chunk was in hand, the chunk
\* was written, and the next check ended the relay.
C4_Witness ==
  /\ canceled = "relay"
  /\ relayEnd = "ctx"
  /\ writesAfterCancel = 1
  /\ Len(written) = 2
  /\ pc = "done"

\* C5 (as stated): once the upstream response has arrived, the relay is not
\* ended by a timer of the shared HTTP client.
C5_NoClientTimer == ~(relayEnd = "read" /\ rerr = "timeout")

\* C7: whenever the relay is about to read, every chunk read so far has been
\* written, in order, and flushed; when the upstream body ends after N chunks
\* the caller has been written exactly those N chunks, each flushed.
C7_RelayFaithful ==
  /\ pc \in {"check", "read"} => (written = upRead /\ flushes = Len(upRead))
  /\ pc = "flush" => (written = upRead /\ flushes = Len(upRead) - 1)
  /\ relayEnd = "completed" => (written = upRead /\ flushes = Len(upRead))

\* C7 witness: the upstream sent two different chunks and closed.
C7_Witness ==
  /\ pc = "done"
  /\ relayEnd = "completed"
  /\ Len(upRead) = 2
  /\ upRead[1] # upRead[2]
  /\ written = upRead

\* C8 (as stated): when the inbound request is canceled in mid-flight, the
\* response carries 499 and {"error": "request canceled"}.
C8_CancelGives499 ==
  (pc = "done" /\ CanceledMidFlight) =>
    /\ respStatus = 499
    /\ respError = Msg("request canceled")

\* C8 (amended): when the upstream call returns the cancellation, the
\* response carries 499 and {"error": "request canceled"}; when the upstream
\* call has returned a response, the response keeps the upstream's status and
\* no error body is written, whenever the cancellation comes.
C8_CancelOfCallGives499 ==
  /\ doErr = "canceled" =>
       /\ respStatus = 499
       /\ respError = Msg("request canceled")
       /\ headWrites = 1
       /\ written = <<>>
  /\ (upStatus # 0 /\ pc \notin {"gotresp"}) =>
       /\ respStatus = upStatus
       /\ respError = NoMsg

\* C8 witness: the call in flight was canceled and answered 499.
C8_Witness ==
  /\ pc = "done"
  /\ canceled = "inflight"
  /\ doErr = "canceled"
  /\ respStatus = 499

\* C10: when the upstream call fails to connect, the caller gets exactly 502
\* with "Failed to connect to upstream server" and nothing of an upstream
\* response.
C10_ConnectFailure502 ==
  doErr = "connect" =>
    /\ respStatus = 502
    /\ respError = Msg("Failed to connect to upstream server")
    /\ headWrites = 1
    /\ written = <<>>
    /\ upStatus = 0
    /\ \A i \in DOMAIN respHeaders : respHeaders[i][1] = "Content-Type"

\* C10 witness: a call that failed to connect has been answered.
C10_Witness ==
  /\ pc = "done"
  /\ doErr = "connect"
  /\ respStatus = 502
  /\ Len(upstreamReqs) = 1

\* C11: whenever the upstream call returns a response, of any status, the
\* caller's response carries that status, no error body of the proxy is
\* written, and the body relayed is the upstream body: what has been written
\* is what has been read so far, and all of it once the upstream body ends.
C11_UpstreamResponseForwarded ==
  upStatus # 0 =>
    /\ doErr = "nil"
    /\ respError = NoMsg
    /\ pc # "gotresp" => (respStatus = upStatus /\ headWrites = 1)
    /\ IsPrefix(written, upRead)
    /\ relayEnd = "completed" => written = upRead

\* C11 witness: an upstream 500 and its body have been relayed to the end.
C11_Witness ==
  /\ pc = "done"
  /\ upStatus = 500
  /\ respStatus = 500
  /\ relayEnd = "completed"
  /\ written # <<>>

\* C12: within one request the stages follow one another: the document is
\* augmented only after validation, the catalog check included, has passed;
\* the outbound call is issued only with the augmented document; nothing of a
\* response is relayed before the outbound call has returned a response.
C12_StagesInOrder ==
  /\ pc \in {"start", "validate", "augment"} => (bodyMap = EmptyMap /\ upstreamReqs = <<>>)
  /\ bodyMap # EmptyMap =>
       /\ req = UnmarshalChatRequest(body)
       /\ ValidateRequest(req) = NoError
       /\ bodyMap = AugmentBody(UnmarshalMap(body).m, req.Model)
  /\ pc = "send" => upstreamReqs = <<>>
  /\ upstreamReqs # <<>> => upstreamReqs = <<bodyMap>>
  /\ pc \in {"start", "validate", "augment", "send", "inflight"} =>
       (upStatus = 0 /\ upRead = <<>> /\ written = <<>> /\ respStatus = 0)
  /\ (upStatus # 0 \/ upRead # <<>> \/ written # <<>> \/ doErr # "nil") =>
       Len(upstreamReqs) = 1
  /\ written # <<>> => (upStatus # 0 /\ respStatus = upStatus)

\* C12 witness: a request has gone through validation, augmentation, the
\* outbound call and the relay of two chunks.
C12_Witness ==
  /\ pc = "done"
  /\ K_tool_stream \in DOMAIN bodyMap
  /\ upstreamReqs = <<bodyMap>>
  /\ Len(written) = 2

\* C13: the relay looks at the cancellation signal before each read; a read
\* is attempted only after a check that found it unset, and a check that
\* finds it set ends the relay as canceled, after which nothing is read and
\* nothing is written to the caller.
C13_CheckBeforeEachRead ==
  [][ /\ (pc' = "read" /\ pc # "read") => (pc = "check" /\ ~CtxDone)
      /\ (upRead' # upRead \/ rerr' # rerr) => pc = "read"
      /\ (pc = "check" /\ CtxDone /\ pc' # pc) => (relayEnd' = "ctx" /\ pc' = "close")
      /\ relayEnd = "ctx" =>
           /\ upRead' = upRead
           /\ written' = written
           /\ flushes' = flushes
           /\ UNCHANGED respVars
           /\ relayEnd' = "ctx" ]_vars

\* C13 witness: after one chunk had been relayed the check found the context
\* canceled and the relay ended there.
C13_Witness ==
  /\ pc = "done"
  /\ relayEnd = "ctx"
  /\ canceled = "relay"
  /\ writesAfterCancel = 0
  /\ Len(upRead) = 1

\* The values of the headers of one name, in order.
HeaderValues(hs, name) ==
  LET F[i \in 0..Len(hs)] ==
        IF i = 0 THEN <<>>
        ELSE IF hs[i][1] = name THEN Append(F[i-1], hs[i][2]) ELSE F[i-1]
  IN F[Len(hs)]

\* C14: the upstream status and headers are copied to the caller's response
\* once, before any body byte is written, and every upstream header other
\* than the content type reaches the caller with all its values, in order.
C14_HeadOnceBeforeBody ==
  /\ headWrites <= 1
  /\ written # <<>> => (headWrites = 1 /\ respStatus = upStatus)
  /\ (upStatus # 0 /\ pc # "gotresp") =>
       /\ headWrites = 1
       /\ respStatus = upStatus
       /\ \A i \in DOMAIN upHeaders :
            upHeaders[i][1] # "Content-Type" =>
              HeaderValues(respHeaders, upHeaders[i][1]) = HeaderValues(upHeaders, upHeaders[i][1])

\* C14 witness: a response with a header of two values has been copied and
\* body bytes have followed.
C14_Witness ==
  /\ HeaderValues(upHeaders, "Set-Cookie") = <<"a", "b">>
  /\ HeaderValues(respHeaders, "Set-Cookie") = <<"a", "b">>
  /\ headWrites = 1
  /\ written # <<>>

\* C15: at most one outbound call is issued for a request; when the call
\* fails, or returns the client's cancellation, the request ends with that
\* outcome and the call is not issued again.
C15_AtMostOneCall ==
  /\ Len(upstreamReqs) <= 1
  /\ doErr # "nil" =>
       /\ pc = "done"
       /\ Len(upstreamReqs) = 1
       /\ upStatus = 0
       /\ respStatus = IF doErr = "canceled" THEN 499 ELSE 502

\* C15 witness: a call that ran into the client's timer has been answered.
C15_Witness ==
  /\ pc = "done"
  /\ doErr = "timeout"
  /\ Len(upstreamReqs) = 1

(***************************************************************************)
(* The server process: requests served at once, and shutdown (runServe).   *)
(***************************************************************************)
MaxSessions == 3

Sessions == 1..MaxSessions

\* srv.Shutdown is given a context of 30 seconds.
ShutdownTimeout == 30

\* The bodies that pass validation.
ValidSessionBodies ==
  {b \in SessionBodies : b.valid /\ ValidateRequest(UnmarshalChatRequest(b)) = NoError}

\* A request that is repeated, and the requests that run beside it.
RepeatedBodies == ValidSessionBodies
OtherSessionBodies ==
  { SessionBody(N_GLM47, K_Model, JArr(<<M_user>>), JBool(TRUE), JArr(<<ATool>>)),
    SessionBody(N_unknown, K_model, JArr(<<M_user>>), JBool(TRUE), JAbsent) }

\* A deterministic upstream: its reply is a function of the body it is sent.
MockUpstream(sent) ==
  [status |-> 200,
   chunks |-> IF K_tool_stream \in DOMAIN sent THEN << <<"a">>, <<"b","a">> >>
              ELSE << <<"b","a">> >>]

NewSession(b) ==
  [pc |-> "idle", body |-> b, req |-> [Model |-> <<>>, Messages |-> <<>>, err |-> FALSE],
   bodyMap |-> EmptyMap, sent |-> <<>>, status |-> 0, error |-> NoMsg, out |-> <<>>]

\* Faulty variant: the document is kept in one variable of the package.
Frame_Shared(i) == 1

\* var bodyMap map[string]any is a variable of the call: each call has its own.
Frame(i) == i

Active(i) == sess[i].pc \in {"validate", "augment", "send", "inflight", "relay"}

Running == srv.exit = "no"

\* The listener hands a request to a handler goroutine.
Accept(i) ==
  /\ Running
  /\ srv.listening
  /\ sess[i].pc = "idle"
  /\ sess' = [sess EXCEPT ![i].pc = "validate"]
  /\ UNCHANGED << srv, requestState, catalogVars >>

\* The typed decode and the checks; an error is answered at once.
SessionValidate(i) ==
  /\ Running
  /\ sess[i].pc = "validate"
  /\ LET r == UnmarshalChatRequest(sess[i].body)
         e == ValidateRequest(r)
     IN sess' = IF e = NoError
                  THEN [sess EXCEPT ![i].req = r, ![i].pc = "augment"]
                  ELSE [sess EXCEPT ![i].req = r, ![i].pc = "done",
                                    ![i].status = handleError(e).status,
                                    ![i].error = handleError(e).error]
  /\ UNCHANGED << srv, requestState, catalogVars >>

\* The decode into bodyMap and the injections.
SessionAugment(i) ==
  /\ Running
  /\ sess[i].pc = "augment"
  /\ sess' = [sess EXCEPT
                ![Frame(i)].bodyMap = AugmentBody(UnmarshalMap(sess[i].body).m, sess[i].req.Model),
                ![i].pc = "send"]
  /\ UNCHANGED << srv, requestState, catalogVars >>

\* json.Marshal(bodyMap) is sent with the shared client.
SessionSend(i) ==
  /\ Running
  /\ sess[i].pc = "send"
  /\ sess' = [sess EXCEPT ![i].sent = <<sess[Frame(i)].bodyMap>>, ![i].pc = "inflight"]
  /\ UNCHANGED << srv, requestState, catalogVars >>

\* The upstream answers; its status is written.
SessionResponse(i) ==
  /\ Running
  /\ sess[i].pc = "inflight"
  /\ sess' = [sess EXCEPT ![i].status = MockUpstream(sess[i].sent[1]).status,
                          ![i].pc = "relay"]
  /\ UNCHANGED << srv, requestState, catalogVars >>

\* One round of streamResponse: a chunk is relayed, or the body has ended.
SessionRelay(i) ==
  /\ Running
  /\ sess[i].pc = "relay"
  /\ LET chunks == MockUpstream(sess[i].sent[1]).chunks
         n == Len(sess[i].out)
     IN sess' = IF n < Len(chunks)
                  THEN [sess EXCEPT ![i].out = Append(sess[i].out, chunks[n + 1])]
                  ELSE [sess EXCEPT ![i].pc = "done"]
  /\ UNCHANGED << srv, requestState, catalogVars >>

\* The process exits: the requests still being served are cut off.
Exit(how) ==
  /\ srv' = [srv EXCEPT !.exit = how, !.listening = FALSE]
  /\ sess' = [i \in Sessions |->
               IF Active(i) THEN [sess[i] EXCEPT !.pc = "dropped"] ELSE sess[i]]

\* <-quit: SIGINT or SIGTERM arrives.
Signal ==
  /\ Running
  /\ ~srv.quit
  /\ srv' = [srv EXCEPT !.quit = TRUE]
  /\ UNCHANGED << sess, requestState, catalogVars >>

\* srv.Shutdown(ctx) is called: the listener is closed.
CallShutdown ==
  /\ Running
  /\ srv.quit
  /\ ~srv.shutdown
  /\ srv' = [srv EXCEPT !.shutdown = TRUE, !.listening = FALSE]
  /\ UNCHANGED << sess, requestState, catalogVars >>

\* In the serving goroutine ListenAndServe returns http.ErrServerClosed as soon
\* as Shutdown is called: err != nil, and log.Fatalf ends the process.
StartReturns ==
  /\ Running
  /\ srv.shutdown
  /\ Exit("fatal")
  /\ UNCHANGED << requestState, catalogVars >>

\* The 30 seconds of the shutdown context pass.
DeadlineExpires ==
  /\ Running
  /\ ShutdownTimeout > 0
  /\ srv.shutdown
  /\ ~srv.expired
  /\ srv' = [srv EXCEPT !.expired = TRUE]
  /\ UNCHANGED << sess, requestState, catalogVars >>

\* Shutdown returns nil once no request is being served: runServe returns.
ShutdownReturns ==
  /\ Running
  /\ srv.shutdown
  /\ \A i \in Sessions : ~Active(i)
  /\ Exit("graceful")
  /\ UNCHANGED << requestState, catalogVars >>

\* Shutdown returns the context's error at the deadline: log.Fatalf.
ShutdownTimesOut ==
  /\ Running
  /\ srv.shutdown
  /\ srv.expired
  /\ Exit("forced")
  /\ UNCHANGED << requestState, catalogVars >>

InitServer ==
  /\ RequestIdle
  /\ CatalogIdle
  /\ \E b \in RepeatedBodies :
       \E others \in [Sessions \ {1, 2} -> OtherSessionBodies] :
         sess = [i \in Sessions |-> NewSession(IF i \in {1, 2} THEN b ELSE others[i])]
  /\ srv = [listening |-> TRUE, quit |-> FALSE, shutdown |-> FALSE, expired |-> FALSE,
            exit |-> "no"]

NextServer ==
  \/ \E i \in Sessions :
       \/ Accept(i) \/ SessionValidate(i) \/ SessionAugment(i) \/ SessionSend(i)
       \/ SessionResponse(i) \/ SessionRelay(i)
  \/ Signal \/ CallShutdown \/ StartReturns \/ DeadlineExpires
  \/ ShutdownReturns \/ ShutdownTimesOut

\* The process from its start to its exit, with the requests it serves.
SpecServer == InitServer /\ [][NextServer]_vars

(***************************************************************************)
(* Claims about the catalog (SpecCatalog).                                 *)
(***************************************************************************)
\* The catalog entry a name matches under case folding, by either name.
FoldMatch(name) ==
  IF FoldHits(name) = {} THEN NoModel ELSE Catalog[First(FoldHits(name))]

\* C17 (as stated): the lookups agree on which names are registered: GetModel
\* finds a descriptor exactly when IsValidModel accepts the name, the
\* descriptor is the entry the name matches under case folding, and
\* GetModelContextLength returns that entry's context length, the default
\* 128000 only for names IsValidModel rejects; so does /api/show report it.
C17_LookupsAgree ==
  /\ answer.asked =>
       /\ answer.found = answer.valid
       /\ answer.valid => answer.model = FoldMatch(query)
       /\ answer.contextLen =
            IF answer.valid THEN FoldMatch(query).ContextLen ELSE DefaultContextLen
  /\ show.done =>
       show.contextLen =
         IF IsValidModel(show.basename) THEN FoldMatch(show.basename).ContextLen
         ELSE DefaultContextLen

C20_StreamLiteralTrue ==
  \A n \in DOMAIN upstreamReqs :
    (IsObjectBody /\ ~(K_stream \in DOMAIN Doc /\ Doc[K_stream] = JBool(TRUE))) =>
       (K_tool_stream \in DOMAIN upstreamReqs[n] =>
          /\ K_tool_stream \in DOMAIN Doc
          /\ upstreamReqs[n][K_tool_stream] = Doc[K_tool_stream])

\* C20 witness: a GLM-4.6 document with tools and a null stream has been sent
\* on without tool_stream.
C20_Witness ==
  /\ upstreamReqs # <<>>
  /\ HasString(Doc, K_model) /\ Doc[K_model].s = N_GLM46
  /\ K_tools \in DOMAIN Doc /\ Doc[K_tools] = JArr(<<ATool>>)
  /\ K_stream \in DOMAIN Doc /\ Doc[K_stream] = JNull
  /\ K_tool_stream \notin DOMAIN upstreamReqs[1]

(***************************************************************************)
(* Claims about the server process (SpecServer).                           *)
(***************************************************************************)
\* The body the handler sends upstream for an inbound body.
UpstreamBodyOf(b) == AugmentBody(UnmarshalMap(b).m, UnmarshalChatRequest(b).Model)

\* C16: what a request sends upstream is determined by its own body, and what
\* it relays by the upstream's reply to that; so two requests with the same
\* body, run one after the other or at once with other requests, send equal
\* bodies upstream and relay equal responses.
C16_NoStateLeak ==
  /\ \A i \in DOMAIN sess :
       /\ sess[i].sent # <<>> => sess[i].sent = <<UpstreamBodyOf(sess[i].body)>>
       /\ (sess[i].pc = "done" /\ sess[i].sent # <<>>) =>
            /\ sess[i].status = MockUpstream(sess[i].sent[1]).status
            /\ sess[i].out = MockUpstream(sess[i].sent[1]).chunks
  /\ \A i, j \in DOMAIN sess :
       sess[i].body = sess[j].body =>
         /\ (sess[i].sent # <<>> /\ sess[j].sent # <<>>) => sess[i].sent = sess[j].sent
         /\ (sess[i].pc = "done" /\ sess[j].pc = "done") =>
              /\ sess[i].status = sess[j].status
              /\ sess[i].error = sess[j].error
              /\ sess[i].out = sess[j].out

\* C16 witness: the repeated request has been answered twice alike while a
\* request with another body was under way.
C16_Witness ==
  /\ sess # <<>>
  /\ sess[1].pc = "done" /\ sess[2].pc = "done"
  /\ sess[1].out # <<>> /\ sess[1].out = sess[2].out
  /\ sess[3].pc = "inflight"
  /\ sess[3].body # sess[1].body
  /\ sess[3].sent # sess[1].sent

\* C19 (as stated): after the signal the listener is closed, and the process
\* does not exit before every request being served has completed or the 30
\* seconds of the shutdown deadline have passed: no request is cut off
\* before the deadline.
C19_NoDropBeforeDeadline ==
  /\ srv.shutdown => ~srv.listening
  /\ srv.exit # "no" =>
       (srv.expired \/ \A i \in DOMAIN sess : sess[i].pc # "dropped")

(***************************************************************************)
(* Claims about what is forwarded and about the order of validation.       *)
(***************************************************************************)
\* The keys the handler sets in the outbound document.
AugmentedKeys == {K_model, K_thinking, K_tool_stream}

\* C21 (as stated): every field of the inbound document other than model,
\* thinking and tool_stream is in the upstream body with exactly the value it
\* had inbound, and the upstream body has no other field.
C21_OtherFieldsUntouched ==
  (IsObjectBody /\ upstreamReqs # <<>>) =>
    /\ DOMAIN upstreamReqs[1] \ AugmentedKeys = DOMAIN Doc \ AugmentedKeys
    /\ \A k \in DOMAIN Doc \ AugmentedKeys : upstreamReqs[1][k] = Doc[k]

\* C21, for the fields that hold no number wider than a float64's significand:
\* these are forwarded as they came.
C21_NarrowFieldsUntouched ==
  (IsObjectBody /\ upstreamReqs # <<>>) =>
    /\ DOMAIN upstreamReqs[1] \ AugmentedKeys = DOMAIN Doc \ AugmentedKeys
    /\ \A k \in DOMAIN Doc \ AugmentedKeys :
         DecodeAny(Doc[k]) = Doc[k] => upstreamReqs[1][k] = Doc[k]

\* The message is an object whose role is missing, null, empty or a string
\* outside system/user/assistant/tool.
RoleDefect(m) ==
  /\ m.t = "obj"
  /\ LET d == MapOfMembers(m.m)
     IN \/ K_role \notin DOMAIN d
        \/ d[K_role].t = "null"
        \/ d[K_role].t = "str" /\ d[K_role].s \notin validRoles

\* The first message with a role defect, all before it being valid.
IsFirstDefect(msgs, i) ==
  /\ RoleDefect(msgs[i])
  /\ \A j \in 1..(i - 1) : MessageHasValidRole(msgs[j])

Validated == pc \notin {"start", "validate"} /\ BodyWasRead

\* C22 (as stated): messages are validated in order and the first defect ends
\* the request: the 400 names the smallest index of a message whose role is
\* missing, empty or outside the enumeration, whatever the messages after it.
C22_FirstDefectReported ==
  (Validated /\ DocHasModel /\ DocOptionalsTyped /\ K_messages \in DOMAIN Doc
     /\ Doc[K_messages].t = "arr") =>
    \A i \in DOMAIN Doc[K_messages].a :
      IsFirstDefect(Doc[K_messages].a, i) =>
        /\ respStatus = StatusBadRequest
        /\ "idx" \in DOMAIN respError
        /\ respError.idx = i - 1

\* C22, for bodies whose messages are all objects with a role, if any, under
\* the key role and of type string or null: the first defect is reported.
C22_FirstDefectReported_Typed ==
  (Validated /\ DocHasModel /\ DocOptionalsTyped /\ K_messages \in DOMAIN Doc
     /\ Doc[K_messages].t = "arr"
     /\ \A i \in DOMAIN Doc[K_messages].a :
          LET m == Doc[K_messages].a[i]
          IN /\ m.t = "obj"
             /\ \A x \in DOMAIN m.m :
                  EqualFold(m.m[x][1], K_role) =>
                    m.m[x][1] = K_role /\ m.m[x][2].t \in {"str", "null"}) =>
    \A i \in DOMAIN Doc[K_messages].a :
      IsFirstDefect(Doc[K_messages].a, i) =>
        /\ respStatus = StatusBadRequest
        /\ "idx" \in DOMAIN respError
        /\ respError.idx = i - 1

\* The document's fields that validation reads hold a value of the type the
\* handler decodes them into, or are null or missing.
DocTyped ==
  /\ IsObjectBody
  /\ DocOptionalsTyped
  /\ K_model \in DOMAIN Doc => Doc[K_model].t \in {"str", "null"}
  /\ K_messages \in DOMAIN Doc => Doc[K_messages].t \in {"arr", "null"}
  /\ (K_messages \in DOMAIN Doc /\ Doc[K_messages].t = "arr") =>
       \A i \in DOMAIN Doc[K_messages].a :
         LET m == Doc[K_messages].a[i]
         IN /\ m.t = "obj"
            /\ K_role \in DOMAIN MapOfMembers(m.m) =>
                 MapOfMembers(m.m)[K_role].t \in {"str", "null"}

\* The string under key k of document d: empty when missing or null.
DocString(d, k) == IF HasString(d, k) THEN d[k].s ELSE <<>>

\* What the document says, read by its keys as spelled.
DocRequest ==
  [err      |-> FALSE,
   Model    |-> DocString(Doc, K_model),
   Messages |-> IF K_messages \in DOMAIN Doc /\ Doc[K_messages].t = "arr"
                  THEN [i \in DOMAIN Doc[K_messages].a |->
                          [Role |-> DocString(MapOfMembers(Doc[K_messages].a[i].m), K_role)]]
                  ELSE << >>]

\* C23 (as stated): the checks run in the order parse, model present, messages
\* non-empty, role of each message, registry lookup, and a request with defects
\* at several of them is answered with the error of the earliest one; so an
\* invalid role with an unknown model is answered 400, not 404.
C23_EarliestDefectReported ==
  Validated =>
    /\ ~body.valid =>
         /\ respStatus = StatusBadRequest
         /\ respError = Msg("Invalid request: <decode error>")
    /\ (DocTyped /\ ValidateRequest(DocRequest) # NoError) =>
         /\ respStatus = handleError(ValidateRequest(DocRequest)).status
         /\ respError = handleError(ValidateRequest(DocRequest)).error

\* No key of the members is a case variant of one of the names.
ExactKeys(ms, names) ==
  \A x \in DOMAIN ms : \A f \in names : EqualFold(ms[x][1], f) => ms[x][1] = f

\* No key the typed decode reads is spelled in another case.
DocExactKeys ==
  /\ IsObjectBody
  /\ ExactKeys(body.v.m, {K_model, K_messages, K_stream, K_options})
  /\ (K_messages \in DOMAIN Doc /\ Doc[K_messages].t = "arr") =>
       \A i \in DOMAIN Doc[K_messages].a :
         Doc[K_messages].a[i].t = "obj" =>
           ExactKeys(Doc[K_messages].a[i].m, {K_role, K_content})

\* C23, for bodies with no key in another case: the earliest defect is reported.
C23_EarliestDefectReported_ExactKeys ==
  Validated =>
    /\ ~body.valid =>
         /\ respStatus = StatusBadRequest
         /\ respError = Msg("Invalid request: <decode error>")
    /\ (DocTyped /\ DocExactKeys /\ ValidateRequest(DocRequest) # NoError) =>
         /\ respStatus = handleError(ValidateRequest(DocRequest)).status
         /\ respError = handleError(ValidateRequest(DocRequest)).error

\* C27 (as stated): the model validated is the model forwarded.  The body
\* handed to the upstream has a model key whose value is the name that passed
\* the non-empty and registry checks, and the typed parse and the parse into an
\* open document agree on model, messages and each role, however the keys are
\* spelled.
C27_ValidatedIsForwarded ==
  /\ upstreamReqs # <<>> =>
       /\ K_model \in DOMAIN upstreamReqs[1]
       /\ upstreamReqs[1][K_model] = JStr(req.Model)
       /\ IsValidModel(upstreamReqs[1][K_model].s)
  /\ (Validated /\ DocTyped) =>
       /\ ~req.err
       /\ req.Model = DocRequest.Model
       /\ Len(req.Messages) = Len(DocRequest.Messages)
       /\ \A i \in DOMAIN req.Messages : req.Messages[i].Role = DocRequest.Messages[i].Role

\* C27, for bodies with no key in another case: the two parses agree and the
\* validated name is the one forwarded.
C27_ValidatedIsForwarded_ExactKeys ==
  DocExactKeys =>
    /\ upstreamReqs # <<>> =>
         /\ K_model \in DOMAIN upstreamReqs[1]
         /\ upstreamReqs[1][K_model] = JStr(req.Model)
         /\ IsValidModel(upstreamReqs[1][K_model].s)
    /\ (Validated /\ DocTyped) =>
         /\ ~req.err
         /\ req.Model = DocRequest.Model
         /\ Len(req.Messages) = Len(DocRequest.Messages)
         /\ \A i \in DOMAIN req.Messages : req.Messages[i].Role = DocRequest.Messages[i].Role

(***************************************************************************)
(* Claims about the relay and the response (Spec, SpecRelayFair).          *)
(***************************************************************************)
Streaming == pc \in {"check", "read", "write", "flush"}

\* C24: the relay goes Idle -> Streaming -> Completed or Aborted.  It ends in
\* one terminal state and reads, writes and flushes nothing after it; it ends
\* Completed (returns no error) exactly when the end of the stream was read
\* with no cancellation seen, no read error and no write error before it; and
\* with a source that ends or fails it does terminate.
C24_RelayStateMachine ==
  /\ [](Streaming => relayEnd = "none")
  /\ [](relayEnd # "none" => pc \in {"close", "done"})
  /\ [](relayEnd = "completed" <=>
          (relayEnd # "none" /\ rerr = "EOF" /\ written = upRead))
  /\ [](relayEnd = "ctx" => CtxDone /\ rerr = "nil")
  /\ [](relayEnd = "read" => rerr \notin {"nil", "EOF"})
  /\ [](relayEnd = "write" => written # upRead)
  /\ [][relayEnd # "none" =>
          /\ relayEnd' = relayEnd
          /\ upRead' = upRead /\ written' = written /\ flushes' = flushes]_vars
  /\ Streaming ~> (relayEnd # "none")

\* C24 witness: a relay that read two chunks and then the end of the stream has
\* ended Completed.
C24_Witness ==
  /\ pc = "done"
  /\ relayEnd = "completed"
  /\ Len(upRead) = 2
  /\ buf = <<>>

\* C25: when a write to the caller fails the relay stops at once as Aborted:
\* the chunk is not counted as written, nothing more is read, written or
\* flushed, and the handler writes no error response and no status of its own:
\* the response stays the upstream's head and what was relayed before.
C25_WriteFailureEndsQuietly ==
  /\ [](relayEnd = "write" =>
          /\ pc \in {"close", "done"}
          /\ respStatus = upStatus
          /\ respError = NoMsg
          /\ headWrites = 1
          /\ Len(written) = Len(upRead) - 1
          /\ flushes = Len(written))
  /\ [][(pc = "write" /\ pc' \notin {"write", "flush"}) =>
          /\ relayEnd' = "write"
          /\ written' = written /\ flushes' = flushes /\ upRead' = upRead]_vars
  /\ [][relayEnd = "write" =>
          /\ upRead' = upRead /\ written' = written /\ flushes' = flushes
          /\ respStatus' = respStatus /\ respError' = respError
          /\ respHeaders' = respHeaders /\ headWrites' = headWrites]_vars

\* C25 witness: the second write failed after the first chunk was relayed, and
\* the handler has returned.
C25_Witness ==
  /\ pc = "done"
  /\ relayEnd = "write"
  /\ Len(upRead) = 2
  /\ Len(written) = 1
  /\ respStatus = upStatus

ProxyErrorStatuses ==
  {StatusBadRequest, StatusNotFound, StatusClientClosed, StatusInternalServerError,
   StatusBadGateway}

\* C28: a chat request gets exactly one response head: either one error
\* response of the proxy (400, 404, 499, 500 or 502 with an error body), with
\* no upstream status and nothing relayed, or the upstream's status and
\* headers, never both; and once the upstream's status is written nothing that
\* fails afterwards writes another status or an error body.
C28_OneResponseHead ==
  /\ [](headWrites <= 1)
  /\ [](pc = "done" => headWrites = 1)
  /\ [](respError # NoMsg =>
          /\ headWrites = 1
          /\ respStatus \in ProxyErrorStatuses
          /\ upStatus = 0
          /\ written = <<>>)
  /\ []((headWrites = 1 /\ respError = NoMsg) =>
          /\ upStatus # 0
          /\ respStatus = upStatus
          /\ respHeaders = AddHeaders(<<>>, upHeaders))
  /\ [][(headWrites = 1 /\ respError = NoMsg) => UNCHANGED respVars]_vars

\* C28 witness: the read of the upstream body failed after the status 200 and a
\* chunk were relayed; the response has the one head.
C28_Witness ==
  /\ pc = "done"
  /\ relayEnd = "read"
  /\ respStatus = 200
  /\ written # <<>>
  /\ headWrites = 1

\* C29: the bytes a read returns together with the end of the stream or with
\* an error are still written and flushed before the relay ends: when it ends
\* by the end of the stream or by a read error, what was written to the caller
\* is all that the reads returned, and each chunk of it was flushed.
C29_LastBytesRelayed ==
  /\ relayEnd \in {"completed", "read"} =>
       /\ written = upRead
       /\ flushes = Len(upRead)
  /\ (pc \in {"write", "flush"} /\ rerr # "nil") => relayEnd = "none"

\* C29 witness: the second read returned bytes together with an error; both
\* chunks are with the caller and the relay has ended for the read error.
C29_Witness ==
  /\ relayEnd = "read"
  /\ rerr = "error"
  /\ buf # <<>>
  /\ Len(upRead) = 2
  /\ written = upRead
  /\ flushes = 2

\* C30: once the outbound call has returned a response its body is closed on
\* every way out of the handler (completion, cancellation during the relay,
\* read error, write error), and closed once, after the last read; when the
\* call returned an error no body is read or closed.
C30_BodyClosedOnce ==
  /\ bodyCloses <= 1
  /\ (pc = "done" /\ upStatus # 0) => (bodyCloses = 1 /\ relayEnd # "none")
  /\ bodyCloses = 1 => (pc = "done" /\ upStatus # 0)
  /\ doErr # "nil" => (upStatus = 0 /\ bodyCloses = 0 /\ upRead = <<>>)

\* C30 witness: the relay ended on a cancellation after a chunk, and the
\* handler has returned with the body closed.
C30_Witness ==
  /\ pc = "done"
  /\ relayEnd = "ctx"
  /\ upRead # <<>>
  /\ bodyCloses = 1

(***************************************************************************)
(* Claims about the catalog in memory (SpecRegistry).                      *)
(***************************************************************************)
\* C26 (as stated): the registry is never changed at run time: after any
\* requests to the chat, /api/tags and /api/show endpoints and any use of a
\* descriptor GetModel returned, its entries are those built at start.
C26_RegistryUnchanged == registry = Catalog

\* C26, for what the program itself does: the requests, and a holder that
\* assigns to the fields of the descriptor, leave the registry as built, and
\* /api/tags answers the entries as built.
C26_RequestsLeaveRegistry ==
  (\/ ~desc.held
   \/ desc.shares = 0
   \/ /\ desc.m.Capabilities = Catalog[desc.shares].Capabilities
      /\ desc.m.Families = Catalog[desc.shares].Families) =>
    /\ registry = Catalog
    /\ tags \in {NoTags, Catalog}

====
